---- MODULE Spec2Model ----
(***************************************************************************)
(* Model of StarlinkClient (src/src/starlinkclient.cpp): a QTimer-driven   *)
(* poller that, on start and on every timeout, runs fetchStatus: three     *)
(* blocking gRPC calls (status, location, history), each followed by the   *)
(* Qt signals its result requires.  Signals are delivered by direct        *)
(* connection, so the slots of a subscriber run inside the emit statement  *)
(* and may call startMonitoring / stopMonitoring re-entrantly.             *)
(*                                                                         *)
(* Everything runs on the thread of the Qt event loop.  stub_->Handle      *)
(* blocks that thread, so no timeout is delivered and no outside caller    *)
(* gets in while a fetchStatus is on the call stack: only the slots of the *)
(* signal being emitted do.  Time passes while the thread is blocked in a  *)
(* call or idle; a timer that comes due meanwhile fires once the event     *)
(* loop runs again.                                                        *)
(*                                                                         *)
(* Three specifications.  Spec: the client by itself, driven by any caller *)
(* and any subscribers.  LiveSpec: Spec with the fairness of the event     *)
(* loop and of calls that return.  App: the application of main.cpp, where *)
(* a MainWindow (src/src/mainwindow.cpp) constructs the client, starts it  *)
(* once and displays its events; its responses are drawn from wider sets.  *)
(***************************************************************************)
EXTENDS Integers, Sequences, FiniteSets, TLC

VARIABLES
    pollTimer,  \* the QTimer: [active, remaining] (ms until the next timeout)
    stack,      \* activations of fetchStatus on the call stack, the last one running
    last,       \* the activation that returned in the latest step, if one did
    nCyc,       \* activations begun since the event loop dispatched into the client
    nSlot,      \* control calls made by slots since then
    ctl,        \* the latest control call: "none", "start" or "stop"
    alive,      \* FALSE once the destructor has run
    window,     \* the MainWindow that owns the client, when there is one
    heard       \* the latest event of each kind the client has emitted to it

vars == <<pollTimer, stack, last, nCyc, nSlot, ctl, alive, window, heard>>

\* the presentation layer
ui == <<window, heard>>

----------------------------------------------------------------------------
(* Bounds of the model *)

\* startMonitoring and stopMonitoring calls made by slots per dispatch
MaxSlotCalls == 1
\* time advances in steps of one TimeQuanta-th of the poll interval
TimeQuanta == 2

(* Program constants *)

PollInterval == 5000

Quantum == (PollInterval + TimeQuanta - 1) \div TimeQuanta

Max(a, b) == IF a >= b THEN a ELSE b

----------------------------------------------------------------------------
(* What the device can answer: the inputs of fetchStatus *)

\* std::string: a sequence of bytes.  The string fields of a response hold
\* valid UTF-8 (the protobuf parser rejects anything else); the model has the
\* encodings of one and two bytes.
SAT123 == <<83, 65, 84, 49, 50, 51>>
rev2 == <<114, 101, 118, 50>>
\* "\u00E91", "r3"
E91 == <<195, 169, 49>>
r3 == <<114, 51>>

\* device_info(): id, hardware_version
DeviceInfos == {<<SAT123, rev2>>}
\* lla(): lat, lon, alt, in tenths (37.4, -122.1, 15.0)
Llas == {<<374, -1221, 150>>}
\* what a history response holds: download, upload (Mbps), latency (ms)
Histories == {<<100, 20, 30>>}

\* the same, with a second value of each
MoreDeviceInfos == DeviceInfos \cup {<<E91, r3>>}
MoreLlas == Llas \cup {<<-338, 1512, 580>>}
MoreHistories == Histories \cup {<<50, 10, 40>>}

NoInfo == <<<<>>, <<>>>>
NoLla == <<0, 0, 0>>
NoHistory == <<0, 0, 0>>

\* QString::fromStdString / QString::fromUtf8: the code points the bytes
\* encode, U+FFFD for a byte that begins no valid encoding
RECURSIVE QString_fromStdString(_)
QString_fromStdString(s) ==
    IF s = <<>> THEN <<>>
    ELSE IF s[1] < 128
         THEN <<s[1]>> \o QString_fromStdString(Tail(s))
    ELSE IF /\ s[1] >= 194
            /\ s[1] <= 223
            /\ Len(s) >= 2
            /\ s[2] >= 128
            /\ s[2] <= 191
         THEN <<(s[1] - 192) * 64 + (s[2] - 128)>>
                  \o QString_fromStdString(Tail(Tail(s)))
    ELSE <<65533>> \o QString_fromStdString(Tail(s))

\* Result of stub_->Handle for request.mutable_get_status()
StatusResultsOf(infos) ==
    {[ok |-> FALSE, has_get_device_info |-> FALSE, device_info |-> NoInfo],
     [ok |-> TRUE, has_get_device_info |-> FALSE, device_info |-> NoInfo]}
    \cup {[ok |-> TRUE, has_get_device_info |-> TRUE, device_info |-> i] :
             i \in infos}

StatusResults == StatusResultsOf(DeviceInfos)

\* Result of stub_->Handle for request.mutable_get_location()
LocationResultsOf(llas) ==
    {[ok |-> b, has_get_location |-> FALSE, has_lla |-> FALSE, lla |-> NoLla] :
        b \in BOOLEAN}
    \cup {[ok |-> TRUE, has_get_location |-> TRUE, has_lla |-> FALSE, lla |-> NoLla]}
    \cup {[ok |-> TRUE, has_get_location |-> TRUE, has_lla |-> TRUE, lla |-> l] :
             l \in llas}

LocationResults == LocationResultsOf(Llas)

\* Result of stub_->Handle for request.mutable_get_history()
HistoryResultsOf(histories) ==
    {[ok |-> FALSE, history |-> NoHistory]}
    \cup {[ok |-> TRUE, history |-> h] : h \in histories}

HistoryResults == HistoryResultsOf(Histories)

----------------------------------------------------------------------------
(* Activations of fetchStatus and their traces *)

\* One entry of an activation's trace: a call issued ("call"), its result
\* ("ret"), a signal emitted ("emit"), a qWarning ("report")
E(what, kind, val) == [what |-> what, kind |-> kind, val |-> val]

Emit(kind, val) == E("emit", kind, val)
Call(kind) == E("call", kind, <<>>)

Top == stack[Len(stack)]
Pop == SubSeq(stack, 1, Len(stack) - 1)

\* Positions of fetchStatus where it is suspended: blocked in stub_->Handle
\* (lines 48, 75, 95), or inside an emit while the connected slots run
CallPcs == {"L48", "L75", "L95"}
SlotPcs == {"L51", "L56", "L62", "L80", "L105"}

None == [cyc |-> 0]

----------------------------------------------------------------------------
(* QTimer *)

\* (variant: a running timer keeps its schedule)
QTimerStart_KeepSchedule(t) ==
    IF t.active THEN t ELSE [active |-> TRUE, remaining |-> PollInterval]

\* QTimer::start(msec): starts, or stops and restarts, with the full interval
QTimerStart(t) == [active |-> TRUE, remaining |-> PollInterval]

\* (variant: stop leaves the timer as it is)
QTimerStop_Ignored(t) == t

\* QTimer::stop()
QTimerStop(t) == [active |-> FALSE, remaining |-> 0]

\* (variant: a single-shot timer is inactive once it has fired)
QTimerFired_SingleShot(t) == [active |-> FALSE, remaining |-> 0]

\* A repeating QTimer that has fired is due again a full interval later
QTimerFired(t) == [t EXCEPT !.remaining = PollInterval]

----------------------------------------------------------------------------
(* fetchStatus, from one suspension point to the next.  Each operator      *)
(* gives the next position and the trace entries produced on the way.      *)

\* (variant: a failed status call emits nothing)
fetchStatus_AfterStatus_SilentFailure(f, r) ==
    IF r.ok
    THEN [pc |-> "L51", out |-> <<Emit("ConnectionState", <<TRUE>>)>>]
    ELSE [pc |-> "L62", out |-> <<>>]

\* lines 48-64: Handle returned r for the status request
fetchStatus_AfterStatus(f, r) ==
    IF r.ok
    THEN [pc |-> "L51", out |-> <<Emit("ConnectionState", <<TRUE>>)>>]
    ELSE [pc |-> "L62", out |-> <<Emit("ConnectionState", <<FALSE>>)>>]

\* line 56: the arguments of satelliteInfoUpdated
SatelliteInfo(info) ==
    <<QString_fromStdString(info[1]), QString_fromStdString(info[2])>>

\* (variant: device-info is read without asking whether the response has it)
fetchStatus_AfterConnected_Unchecked(f) ==
    [pc |-> "L56",
     out |-> <<Emit("DeviceIdentity", SatelliteInfo(f.response.device_info))>>]

\* lines 51-57, 73-75: the slots of statusChanged(true) returned
fetchStatus_AfterConnected(f) ==
    IF f.response.has_get_device_info
    THEN [pc |-> "L56",
          out |-> <<Emit("DeviceIdentity", SatelliteInfo(f.response.device_info))>>]
    ELSE [pc |-> "L75", out |-> <<Call("Location")>>]

\* (variant: the cycle is abandoned once the timer has been stopped)
fetchStatus_AfterIdentity_UnlessStopped(f) ==
    IF pollTimer.active
    THEN [pc |-> "L75", out |-> <<Call("Location")>>]
    ELSE [pc |-> "L108", out |-> <<>>]

\* lines 56-57, 73-75: the slots of satelliteInfoUpdated returned
fetchStatus_AfterIdentity(f) ==
    [pc |-> "L75", out |-> <<Call("Location")>>]

\* (variant: the cycle is given up when the status call has failed)
fetchStatus_AfterDisconnected_EarlyExit(f) ==
    [pc |-> "L108", out |-> <<E("report", "gRPC Status Failed", <<>>)>>]

\* (variant: the failure of the status call is not reported)
fetchStatus_AfterDisconnected_NoReport(f) ==
    [pc |-> "L75", out |-> <<Call("Location")>>]

\* lines 62-63, 73-75: the slots of statusChanged(false) returned
fetchStatus_AfterDisconnected(f) ==
    [pc |-> "L75",
     out |-> <<E("report", "gRPC Status Failed", <<>>), Call("Location")>>]

\* (variant: the position is published only when the status call succeeded)
fetchStatus_AfterLocation_IfConnected(f, r) ==
    IF f.response.ok /\ r.ok /\ r.has_get_location /\ r.has_lla
    THEN [pc |-> "L80", out |-> <<Emit("GeoPosition", r.lla)>>]
    ELSE [pc |-> "L95", out |-> <<Call("History")>>]

\* lines 75-83, 93-95: Handle returned r for the location request
fetchStatus_AfterLocation(f, r) ==
    IF r.ok /\ r.has_get_location /\ r.has_lla
    THEN [pc |-> "L80", out |-> <<Emit("GeoPosition", r.lla)>>]
    ELSE [pc |-> "L95", out |-> <<Call("History")>>]

\* lines 80-83, 93-95: the slots of locationUpdated returned
fetchStatus_AfterPosition(f) ==
    [pc |-> "L95", out |-> <<Call("History")>>]

\* (variant: the sample is taken from the history response)
fetchStatus_AfterHistory_FromResponse(f, r) ==
    IF r.ok
    THEN [pc |-> "L105", out |-> <<Emit("ThroughputSample", r.history)>>]
    ELSE [pc |-> "L108", out |-> <<>>]

\* lines 95-108: Handle returned r for the history request
fetchStatus_AfterHistory(f, r) ==
    IF r.ok
    THEN [pc |-> "L105", out |-> <<Emit("ThroughputSample", <<100, 20, 30>>)>>]
    ELSE [pc |-> "L108", out |-> <<>>]

\* lines 105-108: the slots of speedUpdated returned
fetchStatus_AfterSpeed(f) ==
    [pc |-> "L108", out |-> <<>>]

Results(pc) ==
    CASE pc = "L48" -> StatusResults
      [] pc = "L75" -> LocationResults
      [] pc = "L95" -> HistoryResults

KindAt(pc) ==
    CASE pc = "L48" -> "Status"
      [] pc = "L75" -> "Location"
      [] pc = "L95" -> "History"

AfterHandle(f, r) ==
    CASE f.pc = "L48" -> fetchStatus_AfterStatus(f, r)
      [] f.pc = "L75" -> fetchStatus_AfterLocation(f, r)
      [] f.pc = "L95" -> fetchStatus_AfterHistory(f, r)

AfterSlots(f) ==
    CASE f.pc = "L51" -> fetchStatus_AfterConnected(f)
      [] f.pc = "L56" -> fetchStatus_AfterIdentity(f)
      [] f.pc = "L62" -> fetchStatus_AfterDisconnected(f)
      [] f.pc = "L80" -> fetchStatus_AfterPosition(f)
      [] f.pc = "L105" -> fetchStatus_AfterSpeed(f)

\* The running activation f moves on to n; at line 108 it returns to its caller
Advance(f, n, entries) ==
    LET g == [f EXCEPT !.pc = n.pc, !.trace = @ \o entries \o n.out]
    IN  IF n.pc = "L108"
        THEN /\ stack' = Pop
             /\ last' = g
        ELSE /\ stack' = [stack EXCEPT ![Len(stack)] = g]
             /\ last' = None

\* (variant: the connection is announced before the status call is made)
fetchStatus_Optimistic(c, trigger, before) ==
    [cyc |-> c, pc |-> "L48", trigger |-> trigger, before |-> before,
     response |-> CHOOSE r \in StatusResults : ~r.ok,
     trace |-> <<Emit("ConnectionState", <<TRUE>>), Call("Status")>>,
     stoppedAt |-> 0]

\* A new activation of fetchStatus, run up to the status call (line 48).
\* trigger: "start" (called by startMonitoring) or "timer" (QTimer::timeout);
\* before: the timer's arming and the latest control call when the trigger came;
\* stoppedAt: the length of the trace when stopMonitoring was first called
\* while the activation was on the stack, 0 if it never was
fetchStatus(c, trigger, before) ==
    [cyc |-> c, pc |-> "L48", trigger |-> trigger, before |-> before,
     response |-> CHOOSE r \in StatusResults : ~r.ok,
     trace |-> <<Call("Status")>>, stoppedAt |-> 0]

Before == [active |-> pollTimer.active, ctl |-> ctl]

----------------------------------------------------------------------------
(* MainWindow *)

EventKinds == {"ConnectionState", "DeviceIdentity", "GeoPosition", "ThroughputSample"}

NothingHeard == [k \in EventKinds |-> <<>>]

\* No MainWindow has been constructed.  phase: "none"; "L19", the constructor
\* is in client_->startMonitoring(); "exec", constructed, a.exec() is running;
\* "gone", the application has quit
NoWindow ==
    [phase |-> "none", visible |-> FALSE, tray |-> FALSE, closeEvent |-> "none",
     connectedIcon |-> "", disconnectedIcon |-> "",
     statusLabel |-> "", icon |-> "", toolTip |-> "",
     speedLabel |-> <<>>, locationLabel |-> <<>>, satelliteLabel |-> <<>>]

\* createUi(), lines 32-50: the labels as they are created
createUi(w) ==
    [w EXCEPT !.statusLabel = "Status: Connecting...",
              !.speedLabel = <<"Speed: --">>,
              !.locationLabel = <<"Location: --">>,
              !.satelliteLabel = <<"Satellite: --">>]

\* createTrayIcon(), lines 52-70: trayIcon_->show() makes the icon visible
\* where the desktop has a system tray
createTrayIcon(w, available) == [w EXCEPT !.tray = available]

RECURSIVE Pow10(_)
Pow10(n) == IF n = 0 THEN 1 ELSE 10 * Pow10(n - 1)

\* QString::arg(value, 0, 'f', prec) of the number v / denom: sign, integer
\* part and prec decimals, rounded to the nearest
arg_f(v, denom, prec) ==
    LET abs == IF v < 0 THEN -v ELSE v
        scaled == (2 * abs * Pow10(prec) + denom) \div (2 * denom)
    IN  [neg |-> v < 0, int |-> scaled \div Pow10(prec),
         frac |-> scaled % Pow10(prec), digits |-> prec]

\* (variant: a lost connection blanks the telemetry labels)
updateStatus_Blanking(w, connected) ==
    IF connected
    THEN [w EXCEPT !.statusLabel = "Status: Connected",
                   !.icon = w.connectedIcon,
                   !.toolTip = "Starlink: Connected"]
    ELSE [w EXCEPT !.statusLabel = "Status: Disconnected",
                   !.icon = w.disconnectedIcon,
                   !.toolTip = "Starlink: Disconnected",
                   !.speedLabel = <<"Speed: --">>,
                   !.locationLabel = <<"Location: --">>,
                   !.satelliteLabel = <<"Satellite: --">>]

\* MainWindow::updateStatus, lines 92-103
updateStatus(w, connected) ==
    IF connected
    THEN [w EXCEPT !.statusLabel = "Status: Connected",
                   !.icon = w.connectedIcon,
                   !.toolTip = "Starlink: Connected"]
    ELSE [w EXCEPT !.statusLabel = "Status: Disconnected",
                   !.icon = w.disconnectedIcon,
                   !.toolTip = "Starlink: Disconnected"]

\* MainWindow::updateSpeed, lines 105-111; the values are in Mbps and ms
updateSpeed(w, downloadMbps, uploadMbps, latencyMs) ==
    [w EXCEPT !.speedLabel =
        <<"Down: ", arg_f(downloadMbps, 1, 1), " Mbps | Up: ",
          arg_f(uploadMbps, 1, 1), " Mbps | Ping: ", arg_f(latencyMs, 1, 0), " ms">>]

\* MainWindow::updateLocation, lines 113-119; the values are in tenths
updateLocation(w, lat, lon, alt) ==
    [w EXCEPT !.locationLabel =
        <<"Lat: ", arg_f(lat, 10, 4), " | Lon: ", arg_f(lon, 10, 4),
          " | Alt: ", arg_f(alt, 10, 1), " m">>]

\* MainWindow::updateSatelliteInfo, lines 121-124; the modelled identities
\* hold no place marker (%1, %2) of their own
updateSatelliteInfo(w, id, hardwareVersion) ==
    [w EXCEPT !.satelliteLabel = <<"ID: ", id, " | HW: ", hardwareVersion>>]

\* The connections of lines 14-17: the slot that the event e runs
Deliver(w, e) ==
    CASE e.kind = "ConnectionState" -> updateStatus(w, e.val[1])
      [] e.kind = "ThroughputSample" -> updateSpeed(w, e.val[1], e.val[2], e.val[3])
      [] e.kind = "GeoPosition" -> updateLocation(w, e.val[1], e.val[2], e.val[3])
      [] e.kind = "DeviceIdentity" -> updateSatelliteInfo(w, e.val[1], e.val[2])

\* heard, once the entries have been added to a trace
Hear(h, entries) ==
    [k \in EventKinds |->
        IF \E i \in DOMAIN entries : entries[i].what = "emit" /\ entries[i].kind = k
        THEN entries[CHOOSE i \in DOMAIN entries :
                        entries[i].what = "emit" /\ entries[i].kind = k].val
        ELSE h[k]]

----------------------------------------------------------------------------
(* Actions *)

Init ==
    /\ pollTimer = [active |-> FALSE, remaining |-> 0]
    /\ stack = <<>>
    /\ last = None
    /\ nCyc = 0
    /\ nSlot = 0
    /\ ctl = "none"
    /\ alive = TRUE
    /\ window = NoWindow
    /\ heard = NothingHeard

\* (variant: the cycle runs but the timer is not armed)
startMonitoring_NotArmed ==
    /\ alive
    /\ stack = <<>>
    /\ pollTimer' = pollTimer
    /\ stack' = <<fetchStatus(1, "start", Before)>>
    /\ last' = None
    /\ nCyc' = 1
    /\ nSlot' = 0
    /\ ctl' = "start"
    /\ UNCHANGED alive

\* (variant: the timer is armed by the first start only)
startMonitoring_FirstOnly ==
    /\ alive
    /\ stack = <<>>
    /\ pollTimer' = IF ctl = "none" THEN QTimerStart(pollTimer) ELSE pollTimer
    /\ stack' = <<fetchStatus(1, "start", Before)>>
    /\ last' = None
    /\ nCyc' = 1
    /\ nSlot' = 0
    /\ ctl' = "start"
    /\ UNCHANGED alive

\* startMonitoring() called from the event loop (MainWindow's constructor, or
\* any other caller that is not a slot of this client)
startMonitoring ==
    /\ alive
    /\ stack = <<>>
    /\ pollTimer' = QTimerStart(pollTimer)
    /\ stack' = <<fetchStatus(1, "start", Before)>>
    /\ last' = None
    /\ nCyc' = 1
    /\ nSlot' = 0
    /\ ctl' = "start"
    /\ UNCHANGED alive

\* startMonitoring() called by a slot while fetchStatus is emitting
slotStartMonitoring ==
    /\ stack # <<>>
    /\ Top.pc \in SlotPcs
    /\ nSlot < MaxSlotCalls
    /\ pollTimer' = QTimerStart(pollTimer)
    /\ stack' = Append(stack, fetchStatus(nCyc + 1, "start", Before))
    /\ last' = None
    /\ nCyc' = nCyc + 1
    /\ nSlot' = nSlot + 1
    /\ ctl' = "start"
    /\ UNCHANGED alive

\* stopMonitoring() called from the event loop
stopMonitoring ==
    /\ alive
    /\ stack = <<>>
    /\ pollTimer' = QTimerStop(pollTimer)
    /\ ctl' = "stop"
    /\ last' = None
    /\ UNCHANGED <<stack, nCyc, nSlot, alive>>

\* stopMonitoring() called by a slot while fetchStatus is emitting
slotStopMonitoring ==
    /\ stack # <<>>
    /\ Top.pc \in SlotPcs
    /\ nSlot < MaxSlotCalls
    /\ nSlot' = nSlot + 1
    /\ pollTimer' = QTimerStop(pollTimer)
    /\ stack' = [i \in DOMAIN stack |->
                    [stack[i] EXCEPT !.stoppedAt = IF @ = 0 THEN Len(stack[i].trace) ELSE @]]
    /\ ctl' = "stop"
    /\ last' = None
    /\ UNCHANGED <<nCyc, alive>>

\* QTimer::timeout, delivered by the event loop, runs the connected fetchStatus
timeout ==
    /\ alive
    /\ stack = <<>>
    /\ pollTimer.active
    /\ pollTimer.remaining = 0
    /\ pollTimer' = QTimerFired(pollTimer)
    /\ stack' = <<fetchStatus(1, "timer", Before)>>
    /\ last' = None
    /\ nCyc' = 1
    /\ nSlot' = 0
    /\ UNCHANGED <<ctl, alive>>

\* The running fetchStatus as stub_->Handle fills in its response
Responded(r) == IF Top.pc = "L48" THEN [Top EXCEPT !.response = r] ELSE Top

\* The blocking stub_->Handle call of the running fetchStatus returns r
HandleReturned(r) ==
    LET f == Responded(r)
    IN  Advance(f, AfterHandle(f, r), <<E("ret", KindAt(f.pc), r)>>)

\* The blocking stub_->Handle call of the running fetchStatus returns
HandleReturns ==
    /\ stack # <<>>
    /\ Top.pc \in CallPcs
    /\ \E r \in Results(Top.pc) : HandleReturned(r)
    /\ UNCHANGED <<pollTimer, nCyc, nSlot, ctl, alive>>

\* The slots connected to the signal being emitted have all returned
SlotsReturn ==
    /\ stack # <<>>
    /\ Top.pc \in SlotPcs
    /\ Advance(Top, AfterSlots(Top), <<>>)
    /\ UNCHANGED <<pollTimer, nCyc, nSlot, ctl, alive>>

\* Time passes while the thread is blocked in a call or idle in the event loop
TimePasses ==
    /\ alive
    /\ IF stack = <<>> THEN TRUE ELSE Top.pc \in CallPcs
    /\ pollTimer.active
    /\ pollTimer.remaining > 0
    /\ pollTimer' = [pollTimer EXCEPT !.remaining = Max(0, @ - Quantum)]
    /\ last' = None
    /\ UNCHANGED <<stack, nCyc, nSlot, ctl, alive>>

\* ~StarlinkClient(): stopMonitoring(), and the object is gone
Destructor ==
    /\ alive
    /\ stack = <<>>
    /\ pollTimer' = QTimerStop(pollTimer)
    /\ ctl' = "stop"
    /\ alive' = FALSE
    /\ last' = None
    /\ nCyc' = 0
    /\ nSlot' = 0
    /\ UNCHANGED stack

\* A client driven by any caller and any subscribers: no MainWindow
Next ==
    \/ startMonitoring /\ UNCHANGED ui
    \/ slotStartMonitoring /\ UNCHANGED ui
    \/ stopMonitoring /\ UNCHANGED ui
    \/ slotStopMonitoring /\ UNCHANGED ui
    \/ timeout /\ UNCHANGED ui
    \/ HandleReturns /\ UNCHANGED ui
    \/ SlotsReturn /\ UNCHANGED ui
    \/ TimePasses /\ UNCHANGED ui
    \/ Destructor /\ UNCHANGED ui

Spec == Init /\ [][Next]_vars

\* The event loop keeps running: time passes and a timer that is due fires.
\* Every call made through the stub returns, with a payload or a failure.
LiveSpec ==
    /\ Spec
    /\ WF_vars(TimePasses /\ UNCHANGED ui)
    /\ WF_vars(timeout /\ UNCHANGED ui)
    /\ WF_vars(HandleReturns /\ UNCHANGED ui)
    /\ WF_vars(SlotsReturn /\ UNCHANGED ui)

----------------------------------------------------------------------------
(* The application: main() constructs a MainWindow, which owns the client  *)
(* and is its only caller and subscriber, and runs the event loop.         *)

MoreResults(pc) ==
    CASE pc = "L48" -> StatusResultsOf(MoreDeviceInfos)
      [] pc = "L75" -> LocationResultsOf(MoreLlas)
      [] pc = "L95" -> HistoryResultsOf(MoreHistories)

\* MainWindow::MainWindow, lines 9-19, up to the status call of the cycle that
\* client_->startMonitoring() runs
MainWindow ==
    /\ window.phase = "none"
    /\ startMonitoring
    /\ \E available \in BOOLEAN :
          window' = [createTrayIcon(createUi(window), available) EXCEPT !.phase = "L19"]
    /\ UNCHANGED heard

\* MainWindow::MainWindow, lines 21-25, once client_->startMonitoring() has
\* returned
MainWindow_L21 ==
    /\ window.phase = "L19"
    /\ stack = <<>>
    /\ window' = [updateStatus([window EXCEPT
                                   !.connectedIcon = ":/icons/connected.png",
                                   !.disconnectedIcon = ":/icons/disconnected.png"],
                               FALSE)
                    EXCEPT !.phase = "exec"]
    /\ last' = None
    /\ UNCHANGED <<pollTimer, stack, nCyc, nSlot, ctl, alive, heard>>

\* QTimer::timeout, delivered by a.exec()
appTimeout ==
    /\ window.phase = "exec"
    /\ timeout
    /\ UNCHANGED ui

\* stub_->Handle returns; what fetchStatus emits on the way reaches no slot yet
appHandleReturns ==
    /\ stack # <<>>
    /\ Top.pc \in CallPcs
    /\ \E r \in MoreResults(Top.pc) :
          /\ HandleReturned(r)
          /\ heard' = Hear(heard, AfterHandle(Responded(r), r).out)
    /\ UNCHANGED <<pollTimer, nCyc, nSlot, ctl, alive, window>>

\* The slot of MainWindow connected to the signal being emitted has run
appSlotsReturn ==
    /\ SlotsReturn
    /\ window' = Deliver(window, Top.trace[Len(Top.trace)])
    /\ heard' = Hear(heard, AfterSlots(Top).out)

appTimePasses ==
    /\ window.phase = "exec" \/ stack # <<>>
    /\ TimePasses
    /\ UNCHANGED ui

\* (variant: polling is stopped while the window is hidden in the tray)
closeEvent_StopsMonitoring ==
    /\ window.phase = "exec"
    /\ stack = <<>>
    /\ window.visible
    /\ window' = IF window.tray
                 THEN [window EXCEPT !.visible = FALSE, !.closeEvent = "ignored"]
                 ELSE [window EXCEPT !.visible = FALSE, !.closeEvent = "accepted"]
    /\ pollTimer' = IF window.tray THEN QTimerStop(pollTimer) ELSE pollTimer
    /\ ctl' = IF window.tray THEN "stop" ELSE ctl
    /\ last' = None
    /\ UNCHANGED <<stack, nCyc, nSlot, alive, heard>>

\* MainWindow::closeEvent, lines 72-78: hidden to the tray and the event
\* ignored, or the event left accepted and the window closed
closeEvent ==
    /\ window.phase = "exec"
    /\ stack = <<>>
    /\ window.visible
    /\ window' = IF window.tray
                 THEN [window EXCEPT !.visible = FALSE, !.closeEvent = "ignored"]
                 ELSE [window EXCEPT !.visible = FALSE, !.closeEvent = "accepted"]
    /\ last' = None
    /\ UNCHANGED <<pollTimer, stack, nCyc, nSlot, ctl, alive, heard>>

ActivationReasons == {"Unknown", "Context", "DoubleClick", "Trigger", "MiddleClick"}

\* MainWindow::onTrayIconActivated, lines 80-90
onTrayIconActivated ==
    /\ window.phase = "exec"
    /\ stack = <<>>
    /\ window.tray
    /\ \E reason \in ActivationReasons :
          window' = IF reason = "Trigger" \/ reason = "DoubleClick"
                    THEN [window EXCEPT !.visible = ~window.visible]
                    ELSE window
    /\ last' = None
    /\ UNCHANGED <<pollTimer, stack, nCyc, nSlot, ctl, alive, heard>>

\* "Show" of the tray menu, lines 56-58: showNormal()
restoreAction ==
    /\ window.phase = "exec"
    /\ stack = <<>>
    /\ window.tray
    /\ window' = [window EXCEPT !.visible = TRUE]
    /\ last' = None
    /\ UNCHANGED <<pollTimer, stack, nCyc, nSlot, ctl, alive, heard>>

\* "Quit" of the tray menu, lines 60-62: a.exec() returns and main() destroys
\* the window, and with it the client
quitAction ==
    /\ window.phase = "exec"
    /\ window.tray
    /\ Destructor
    /\ window' = [window EXCEPT !.phase = "gone", !.visible = FALSE]
    /\ UNCHANGED heard

AppNext ==
    \/ MainWindow
    \/ MainWindow_L21
    \/ appTimeout
    \/ appHandleReturns
    \/ appSlotsReturn
    \/ appTimePasses
    \/ closeEvent
    \/ onTrayIconActivated
    \/ restoreAction
    \/ quitAction

App == Init /\ [][AppNext]_vars

----------------------------------------------------------------------------
(* Reading an activation's trace *)

\* The activations whose trace the state holds: those on the stack, and the
\* one that has just returned
Frames ==
    {stack[i] : i \in DOMAIN stack} \cup (IF last = None THEN {} ELSE {last})

IsEmit(e) == e.what = "emit"
IsCall(e) == e.what = "call"

EventsOf(f) == SelectSeq(f.trace, IsEmit)
CallsOf(f) == SelectSeq(f.trace, IsCall)
KindsOf(seq) == [i \in DOMAIN seq |-> seq[i].kind]

EventsOfKind(f, kind) ==
    SelectSeq(f.trace, LAMBDA e : e.what = "emit" /\ e.kind = kind)

Emitted(f, kind) == Len(EventsOfKind(f, kind)) > 0

Returned(f, kind) ==
    \E i \in DOMAIN f.trace : f.trace[i].what = "ret" /\ f.trace[i].kind = kind

ResultOf(f, kind) ==
    f.trace[CHOOSE i \in DOMAIN f.trace :
                f.trace[i].what = "ret" /\ f.trace[i].kind = kind].val

\* The status, location, history call of f returned success
Succeeded(f, kind) == Returned(f, kind) /\ ResultOf(f, kind).ok

CarriesDeviceInfo(f) ==
    Succeeded(f, "Status") /\ ResultOf(f, "Status").has_get_device_info

CarriesPosition(f) ==
    /\ Succeeded(f, "Location")
    /\ ResultOf(f, "Location").has_get_location
    /\ ResultOf(f, "Location").has_lla

HasReturned == last # None

IsSubsequence(s, t) ==
    \E g \in [DOMAIN s -> DOMAIN t] :
        /\ \A i \in DOMAIN s : t[g[i]] = s[i]
        /\ \A i, j \in DOMAIN s : i < j => g[i] < g[j]

EventOrder == <<"ConnectionState", "DeviceIdentity", "GeoPosition", "ThroughputSample">>

----------------------------------------------------------------------------
(* C1: in every cycle exactly one ConnectionState event is emitted, and its *)
(* value is true if and only if the status call of the cycle succeeded.    *)
(* An activation in flight has emitted it once its status call returned,   *)
(* and not before; a returned activation has emitted exactly one.          *)
C1_OneConnectionState ==
    \A f \in Frames :
        LET cs == EventsOfKind(f, "ConnectionState")
        IN  /\ Returned(f, "Status") =>
                 /\ Len(cs) = 1
                 /\ cs[1].val = <<ResultOf(f, "Status").ok>>
            /\ ~Returned(f, "Status") => Len(cs) = 0
            /\ (HasReturned /\ f = last) => Len(cs) = 1

\* a timer-triggered cycle whose status call failed has returned
C1_Witness ==
    /\ HasReturned
    /\ last.trigger = "timer"
    /\ ~Succeeded(last, "Status")
    /\ EventsOfKind(last, "ConnectionState")[1].val = <<FALSE>>

(* C2: DeviceIdentity is emitted in a cycle if and only if the cycle's      *)
(* status call succeeded and its response carries device-info; it never    *)
(* shares a cycle with ConnectionState(false).                             *)
C2_DeviceIdentity ==
    /\ HasReturned =>
         /\ Emitted(last, "DeviceIdentity") <=> CarriesDeviceInfo(last)
         /\ Len(EventsOfKind(last, "DeviceIdentity")) <= 1
    /\ \A f \in Frames :
         Emitted(f, "DeviceIdentity") =>
            /\ CarriesDeviceInfo(f)
            /\ \A i \in DOMAIN f.trace :
                  (f.trace[i].what = "emit" /\ f.trace[i].kind = "ConnectionState")
                      => f.trace[i].val = <<TRUE>>

\* a cycle that emitted DeviceIdentity has returned
C2_Witness ==
    /\ HasReturned
    /\ Emitted(last, "DeviceIdentity")
    /\ CarriesDeviceInfo(last)

(* C3: GeoPosition is emitted in a cycle iff its location call succeeded    *)
(* with a resolved position, and ThroughputSample iff its history call     *)
(* succeeded, whatever the outcomes of the cycle's other calls.            *)
C3_Independent ==
    HasReturned =>
        /\ Emitted(last, "GeoPosition") <=> CarriesPosition(last)
        /\ Emitted(last, "ThroughputSample") <=> Succeeded(last, "History")
        /\ Len(EventsOfKind(last, "GeoPosition")) <= 1
        /\ Len(EventsOfKind(last, "ThroughputSample")) <= 1

\* status failed, location and history succeeded:
\* ConnectionState(false), GeoPosition, ThroughputSample
C3_Witness ==
    /\ HasReturned
    /\ ~Succeeded(last, "Status")
    /\ CarriesPosition(last)
    /\ Succeeded(last, "History")
    /\ KindsOf(EventsOf(last)) = <<"ConnectionState", "GeoPosition", "ThroughputSample">>

C4_OrderInCycle ==
    \A f \in Frames : IsSubsequence(KindsOf(EventsOf(f)), EventOrder)

\* the activation at position i of the stack emits an event in this step
EmitsInStep(i) ==
    \/ /\ i <= Len(stack')
       /\ stack'[i].cyc = stack[i].cyc
       /\ Len(EventsOf(stack'[i])) > Len(EventsOf(stack[i]))
    \/ /\ i = Len(stack)
       /\ Len(stack') < Len(stack)
       /\ last' # None
       /\ Len(EventsOf(last')) > Len(EventsOf(stack[i]))

C4_CyclesInOrder ==
    \A i \in DOMAIN stack : EmitsInStep(i) => stack[i].cyc = nCyc

(* C4: the events of one cycle are a subsequence of ConnectionState,        *)
(* DeviceIdentity, GeoPosition, ThroughputSample, each kind at most once,  *)
(* and every event of a cycle is emitted before the first call or event of *)
(* the next cycle: an activation emits only while no activation has begun *)
(* after it.                                                               *)
C4_Order == []C4_OrderInCycle /\ [][C4_CyclesInOrder]_vars

(* C5: cycles never overlap: at most one activation of fetchStatus is in   *)
(* flight at any time.                                                     *)
C5_NoOverlap == Len(stack) <= 1

\* what does hold: a timeout never begins a cycle while another is in flight
C5_TimerNeverOverlaps ==
    \A i \in DOMAIN stack : stack[i].trigger = "timer" => i = 1

FromIdle(f) == f.trigger = "start" /\ ~f.before.active

AllCalls == <<"Status", "Location", "History">>

(* C6: start() from Idle performs one complete cycle immediately and only   *)
(* then arms the repeating timer: the timer is not armed while the         *)
(* immediate cycle is in progress, and is armed when start() returns.      *)
C6_CycleThenArm ==
    /\ \A i \in DOMAIN stack : FromIdle(stack[i]) => ~pollTimer.active
    /\ (HasReturned /\ FromIdle(last)) =>
          /\ pollTimer.active
          /\ KindsOf(CallsOf(last)) = AllCalls

(* C6 as the code has it: start() from Idle arms the timer first and then   *)
(* performs one complete cycle; the timer is armed while that cycle is in  *)
(* progress and when start() returns, unless stop() was called during the  *)
(* cycle, and then it is armed exactly if a start() was the latest control *)
(* call.                                                                   *)
C6_ArmThenCycle ==
    /\ \A f \in Frames :
          FromIdle(f) =>
             /\ f.stoppedAt = 0 => pollTimer.active
             /\ pollTimer.active <=> ctl = "start"
    /\ (HasReturned /\ FromIdle(last)) => KindsOf(CallsOf(last)) = AllCalls

\* a start() from Idle has returned, no stop() in between: Running
C6_Witness ==
    /\ HasReturned
    /\ FromIdle(last)
    /\ last.stoppedAt = 0
    /\ stack = <<>>
    /\ pollTimer.active

StartStep == startMonitoring \/ slotStartMonitoring

OneMoreCycle ==
    /\ Len(stack') = Len(stack) + 1
    /\ SubSeq(stack', 1, Len(stack)) = stack
    /\ stack'[Len(stack')].pc = "L48"
    /\ stack'[Len(stack')].trace = <<Call("Status")>>

(* C7: start() while Running leaves the timer's arming and its pending     *)
(* schedule unchanged and triggers exactly one additional immediate cycle. *)
C7_ScheduleKept ==
    [][(StartStep /\ pollTimer.active) => (pollTimer' = pollTimer /\ OneMoreCycle)]_vars

(* C7 as the code has it: start() while Running restarts the one timer (it *)
(* stays armed, its pending tick is rescheduled a full interval after the  *)
(* call) and triggers exactly one additional immediate cycle.              *)
C7_Restarted ==
    [][(StartStep /\ pollTimer.active) =>
          /\ pollTimer'.active
          /\ pollTimer'.remaining = PollInterval
          /\ OneMoreCycle]_vars

\* a cycle begun by start() while the poller was Running
C7_Witness ==
    \E f \in Frames :
        /\ f.trigger = "start"
        /\ f.before.active
        /\ f.before.ctl = "start"

C8_Disarmed ==
    /\ ctl = "stop" => ~pollTimer.active
    /\ \A f \in Frames :
          f.trigger = "timer" => (f.before.ctl = "start" /\ f.before.active)

StopStep == stopMonitoring \/ slotStopMonitoring

C8_StopIsSilent ==
    StopStep =>
        /\ ~pollTimer'.active
        /\ Len(stack') = Len(stack)
        /\ \A i \in DOMAIN stack :
              /\ stack'[i].trace = stack[i].trace
              /\ stack'[i].pc = stack[i].pc
        /\ last' = None

(* C8: after stop() and until the next start() the timer is disarmed and   *)
(* no timer-triggered cycle begins; stop() itself issues no call and emits *)
(* no event; stop() in Idle leaves the poller Idle.                        *)
C8_Stop == []C8_Disarmed /\ [][C8_StopIsSilent]_vars

\* stop() called after a cycle has run: Idle, no cycle in flight
C8_Witness ==
    /\ alive
    /\ ctl = "stop"
    /\ stack = <<>>
    /\ nCyc = 1
    /\ ~pollTimer.active

ExpectedKinds(f) ==
    <<"ConnectionState">>
    \o (IF CarriesDeviceInfo(f) THEN <<"DeviceIdentity">> ELSE <<>>)
    \o (IF CarriesPosition(f) THEN <<"GeoPosition">> ELSE <<>>)
    \o (IF Succeeded(f, "History") THEN <<"ThroughputSample">> ELSE <<>>)

(* C9: a cycle in flight when stop() is called still issues all its        *)
(* remaining calls and emits all the events their outcomes require.        *)
C9_RunsToCompletion ==
    /\ (HasReturned /\ last.stoppedAt > 0) =>
          /\ KindsOf(CallsOf(last)) = AllCalls
          /\ \A k \in {"Status", "Location", "History"} : Returned(last, k)
          /\ KindsOf(EventsOf(last)) = ExpectedKinds(last)
    /\ (stack # <<>> /\ Top.stoppedAt > 0) => ENABLED (HandleReturns \/ SlotsReturn)

\* stop() was called in the slot of ConnectionState(true), and the cycle went
\* on to emit DeviceIdentity, GeoPosition and ThroughputSample
C9_Witness ==
    /\ HasReturned
    /\ last.stoppedAt = 3
    /\ KindsOf(EventsOf(last)) = EventOrder

RunningAfterStart ==
    /\ pollTimer.active
    /\ pollTimer.remaining <= PollInterval
    /\ ctl = "start"
    /\ KindsOf(CallsOf(last)) = AllCalls
    /\ (stack = <<>> /\ pollTimer.remaining = 0) => ENABLED timeout
    /\ (stack = <<>> /\ pollTimer.remaining > 0) => ENABLED TimePasses

(* C10: the poller has no terminal state: a start() after a stop() leaves  *)
(* it as a first start() on a fresh instance does: Running, the timer      *)
(* armed, one immediate cycle performed, the next timeout on its way.      *)
C10_Reusable ==
    (HasReturned /\ last.trigger = "start" /\ last.stoppedAt = 0
        /\ last.before.ctl \in {"none", "stop"})
    => RunningAfterStart

\* stop() then start(): the immediate cycle has returned
C10_Witness ==
    /\ HasReturned
    /\ last.trigger = "start"
    /\ last.before.ctl = "stop"
    /\ last.stoppedAt = 0
    /\ stack = <<>>
    /\ RunningAfterStart

----------------------------------------------------------------------------
AllFailed(f) ==
    \A k \in {"Status", "Location", "History"} : Returned(f, k) /\ ~ResultOf(f, k).ok

C11_Running == ctl = "start" => pollTimer.active

CycleOver == HasReturned /\ stack = <<>> /\ ctl = "start"

CycleBegun == stack # <<>> \/ ctl = "stop"

(* C11: while the poller is Running and stop() is not called, a new cycle   *)
(* begins after every cycle, whatever the outcomes of the calls: no return *)
(* of a call or of a slot leaves the timer disarmed while start() was the  *)
(* latest control call, and once a cycle is over another one begins unless *)
(* stop() is called first.                                                 *)
C11_KeepsTicking == []C11_Running /\ (CycleOver ~> CycleBegun)

\* a timer-triggered cycle in which all three calls failed is over, and the
\* poller is still Running, the next timeout on its way
C11_Witness ==
    /\ CycleOver
    /\ last.trigger = "timer"
    /\ AllFailed(last)
    /\ pollTimer.active
    /\ pollTimer.remaining > 0

----------------------------------------------------------------------------
IsReport(e) == e.what = "report"

ReportsOf(f) == SelectSeq(f.trace, IsReport)

\* entry i of the trace of f is the failed return of a location or history call
SilentFailure(f, i) ==
    /\ f.trace[i].what = "ret"
    /\ f.trace[i].kind \in {"Location", "History"}
    /\ ~f.trace[i].val.ok

(* C12: a failure report is produced in a cycle if and only if the cycle's  *)
(* status call failed: exactly one, right after ConnectionState(false); a  *)
(* failed location or history call is followed by no event and no report:  *)
(* the cycle goes straight on to its next call, or ends.                   *)
C12_OneReport ==
    /\ HasReturned =>
          Len(ReportsOf(last)) = (IF Succeeded(last, "Status") THEN 0 ELSE 1)
    /\ \A f \in Frames : \A i \in DOMAIN f.trace :
          /\ IsReport(f.trace[i]) =>
                /\ i > 1
                /\ f.trace[i - 1] = Emit("ConnectionState", <<FALSE>>)
                /\ Len(ReportsOf(f)) = 1
          /\ SilentFailure(f, i) =>
                \/ i = Len(f.trace) /\ f.trace[i].kind = "History"
                \/ i < Len(f.trace) /\ IsCall(f.trace[i + 1])

\* all three calls of a cycle failed: ConnectionState(false) and one report
C12_Witness ==
    /\ HasReturned
    /\ AllFailed(last)
    /\ Len(ReportsOf(last)) = 1
    /\ KindsOf(EventsOf(last)) = <<"ConnectionState">>

----------------------------------------------------------------------------
\* the call whose result an event of the given kind reports
CallOf(kind) ==
    CASE kind \in {"ConnectionState", "DeviceIdentity"} -> "Status"
      [] kind = "GeoPosition" -> "Location"
      [] kind = "ThroughputSample" -> "History"

(* C13: per-cycle snapshot: no event of a cycle is emitted before the       *)
(* cycle's status, location and history calls have all returned.           *)
C13_Snapshot ==
    \A f \in Frames :
        Len(EventsOf(f)) > 0 => \A k \in {"Status", "Location", "History"} : Returned(f, k)

(* C13 as the code has it: the results are published call by call: no event *)
(* of a cycle is emitted before the call whose result it reports has       *)
(* returned, and every event is emitted before the cycle issues its next   *)
(* call.                                                                   *)
C13_CallByCall ==
    \A f \in Frames : \A i \in DOMAIN f.trace :
        IsEmit(f.trace[i]) =>
            \E j \in 1..(i - 1) :
                /\ f.trace[j].what = "ret"
                /\ f.trace[j].kind = CallOf(f.trace[i].kind)
                /\ \A n \in (j + 1)..(i - 1) : ~IsCall(f.trace[n])

\* ConnectionState has been emitted and the location call is outstanding
C13_Witness ==
    /\ stack # <<>>
    /\ Top.pc = "L75"
    /\ Emitted(Top, "ConnectionState")
    /\ ~Returned(Top, "Location")

----------------------------------------------------------------------------
IsCallOrRet(e) == e.what \in {"call", "ret"}

\* the calls of an activation and their returns, in the order they happened
CallsAndReturns(f) ==
    LET cr == SelectSeq(f.trace, IsCallOrRet)
    IN  [i \in DOMAIN cr |-> <<cr[i].what, cr[i].kind>>]

CallSequence ==
    <<<<"call", "Status">>, <<"ret", "Status">>,
      <<"call", "Location">>, <<"ret", "Location">>,
      <<"call", "History">>, <<"ret", "History">>>>

(* C14: every cycle issues exactly three calls, Status then Location then   *)
(* History, each once and each only after the previous one has returned,   *)
(* whatever the earlier calls of the cycle returned: the calls and returns *)
(* of an activation in flight are a prefix of that sequence, and those of  *)
(* an activation that has returned are all of it.                          *)
C14_ThreeCalls ==
    /\ \A f \in Frames :
          LET cr == CallsAndReturns(f)
          IN  /\ Len(cr) <= Len(CallSequence)
              /\ \A i \in DOMAIN cr : cr[i] = CallSequence[i]
    /\ HasReturned => CallsAndReturns(last) = CallSequence

\* the status and location calls failed, and the history call was still made
C14_Witness ==
    /\ HasReturned
    /\ ~Succeeded(last, "Status")
    /\ ~Succeeded(last, "Location")
    /\ Succeeded(last, "History")
    /\ CallsAndReturns(last) = CallSequence

----------------------------------------------------------------------------
\* The bytes that encode the code points of a QString in UTF-8
RECURSIVE Utf8(_)
Utf8(q) ==
    IF q = <<>> THEN <<>>
    ELSE IF q[1] < 128 THEN <<q[1]>> \o Utf8(Tail(q))
    ELSE IF q[1] < 2048
         THEN <<192 + (q[1] \div 64), 128 + (q[1] % 64)>> \o Utf8(Tail(q))
    ELSE <<224 + (q[1] \div 4096), 128 + ((q[1] \div 64) % 64), 128 + (q[1] % 64)>>
             \o Utf8(Tail(q))

\* the event e of f carries the values of the response of f's own call
CarriesResponse(f, e) ==
    CASE e.kind = "DeviceIdentity" ->
             /\ Returned(f, "Status")
             /\ <<Utf8(e.val[1]), Utf8(e.val[2])>> = ResultOf(f, "Status").device_info
      [] e.kind = "GeoPosition" ->
             /\ Returned(f, "Location")
             /\ e.val = ResultOf(f, "Location").lla
      [] e.kind = "ThroughputSample" ->
             /\ Returned(f, "History")
             /\ e.val = ResultOf(f, "History").history
      [] OTHER -> TRUE

(* C15: event payloads are the adapter's values passed through unchanged:   *)
(* DeviceIdentity carries the id and hardware version of the cycle's       *)
(* status response, GeoPosition the latitude, longitude and altitude of    *)
(* its location response, ThroughputSample the download, upload and        *)
(* latency of its history response; so no value of an earlier cycle is     *)
(* emitted again.                                                          *)
C15_PassThrough ==
    \A f \in Frames : \A i \in DOMAIN f.trace :
        IsEmit(f.trace[i]) => CarriesResponse(f, f.trace[i])

\* what does hold: identity and position are passed through
C15_IdentityAndPosition ==
    \A f \in Frames : \A i \in DOMAIN f.trace :
        (IsEmit(f.trace[i]) /\ f.trace[i].kind # "ThroughputSample")
            => CarriesResponse(f, f.trace[i])

Placeholder == <<100, 20, 30>>

(* C16: every ThroughputSample event carries the same fixed placeholder    *)
(* (download 100, upload 20, latency 30), whatever the history response    *)
(* holds: cycles whose history calls succeed with different payloads emit *)
(* identical ThroughputSample events.                                      *)
C16_FixedPlaceholder ==
    /\ \A f \in Frames :
          LET ts == EventsOfKind(f, "ThroughputSample")
          IN  \A i \in DOMAIN ts : ts[i].val = Placeholder
    /\ heard["ThroughputSample"] \in {<<>>, Placeholder}

\* a cycle whose history response holds other values than the placeholder
\* is emitting the placeholder, which the label shows already: an earlier
\* cycle emitted the same sample
C16_Witness ==
    /\ stack # <<>>
    /\ Top.pc = "L105"
    /\ ResultOf(Top, "History").history # Placeholder
    /\ EventsOfKind(Top, "ThroughputSample")[1].val = Placeholder
    /\ window.speedLabel = updateSpeed(window, 100, 20, 30).speedLabel

----------------------------------------------------------------------------
\* the status label and the tray tooltip show the connection state c
Shows(c) ==
    IF c
    THEN window.statusLabel = "Status: Connected" /\ window.toolTip = "Starlink: Connected"
    ELSE /\ window.statusLabel = "Status: Disconnected"
         /\ window.toolTip = "Starlink: Disconnected"

(* C17: the presentation layer is a stateless view of the core: whenever   *)
(* no cycle is in progress and at least one has completed, right after the *)
(* construction of MainWindow included, the status label and the tray      *)
(* tooltip show the value of the latest ConnectionState event.             *)
C17_StatelessView ==
    (window.phase = "exec" /\ stack = <<>> /\ heard["ConnectionState"] # <<>>)
        => Shows(heard["ConnectionState"][1])

\* what does hold: the display follows the event once a cycle begun by the
\* timer has completed
C17_AfterTimerCycle ==
    (HasReturned /\ stack = <<>> /\ last.trigger = "timer")
        => Shows(heard["ConnectionState"][1])

----------------------------------------------------------------------------
\* what the window w displays of each kind of event
Displayed(w, kind) ==
    CASE kind = "ConnectionState" -> <<w.statusLabel, w.icon, w.toolTip>>
      [] kind = "DeviceIdentity" -> <<w.satelliteLabel>>
      [] kind = "GeoPosition" -> <<w.locationLabel>>
      [] kind = "ThroughputSample" -> <<w.speedLabel>>

\* in this step the slots return from an event of the given kind
Delivers(kind) ==
    /\ stack # <<>>
    /\ Top.pc \in SlotPcs
    /\ Top.trace[Len(Top.trace)].kind = kind
    /\ stack' # stack

\* a step of MainWindow's constructor
Constructs == window'.phase # window.phase /\ window'.phase \in {"L19", "exec"}

(* C18: each displayed field is written only by its own event kind: apart  *)
(* from the constructor's own writes, what the window displays of a kind   *)
(* changes only in a step that delivers an event of that kind, so a cycle  *)
(* in which a kind produces no event leaves its display at its last value, *)
(* and ConnectionState(false) changes only the connection indicator.       *)
C18_OwnEvent ==
    [][~Constructs =>
          \A k \in EventKinds :
              Displayed(window', k) # Displayed(window, k) => Delivers(k)]_vars

\* a cycle in which all three calls failed has completed: Disconnected, and
\* identity, position and throughput still as earlier cycles left them
C18_Witness ==
    /\ HasReturned
    /\ last.trigger = "timer"
    /\ AllFailed(last)
    /\ window.statusLabel = "Status: Disconnected"
    /\ window.satelliteLabel # createUi(window).satelliteLabel
    /\ window.locationLabel # createUi(window).locationLabel
    /\ window.speedLabel # createUi(window).speedLabel

----------------------------------------------------------------------------
\* From its construction until the application quits, the window's poller is
\* Running; start() was called once, by the constructor, as the first control
\* call (the only cycle not begun by the timer); with no cycle in progress
\* the next timeout is due or on its way
C19_Running ==
    /\ window.phase \in {"L19", "exec"} =>
          /\ alive
          /\ ctl = "start"
          /\ pollTimer.active
    /\ \A f \in Frames :
          f.trigger = "start" => (f.before.ctl = "none" /\ window.phase = "L19")
    /\ (window.phase = "exec" /\ stack = <<>>) => ENABLED (appTimeout \/ appTimePasses)

\* a step that hides or shows the window, the application going on
ShowsOrHides ==
    /\ window'.phase = "exec"
    /\ window'.visible # window.visible \/ window'.closeEvent # window.closeEvent

C19_HidingIsSilent == ShowsOrHides => UNCHANGED <<pollTimer, stack, ctl, alive>>

(* C19: the presentation layer never changes the poller's state after       *)
(* starting it: MainWindow calls start() exactly once, at construction,    *)
(* and never stop(); closing or hiding the window or toggling it from the  *)
(* tray icon leaves the poller Running with its timer armed, so cycles     *)
(* continue while the window is hidden.                                    *)
C19_NeverStops == []C19_Running /\ [][C19_HidingIsSilent]_vars

\* the window was closed to the tray and is hidden, and a cycle begun by the
\* timer is in progress
C19_Witness ==
    /\ window.phase = "exec"
    /\ ~window.visible
    /\ window.closeEvent = "ignored"
    /\ stack # <<>>
    /\ Top.trigger = "timer"

====
